---- MODULE Spec2Model ----
(***************************************************************************)
(* Model of the sunrise-rollkit DA adapter (package sunrise): the facade   *)
(* operations of SunriseDA (Submit, Get, GetIDs, MaxBlobSize, GetProofs,   *)
(* Commit, Validate), the goroutines Submit starts, two Submit calls side  *)
(* by side, and the remote blob service they talk to over HTTP.            *)
(*                                                                         *)
(* Byte strings (da.Blob, da.ID, Go strings) are sequences of numbers in   *)
(* 0..255.  A uint64 is a tuple of four 16-bit limbs, most significant     *)
(* first, so that 64-bit and 32-bit widths are kept exactly.               *)
(***************************************************************************)
EXTENDS Integers, Sequences, FiniteSets, TLC

(***************************************************************************)
(* Bounds of the model.                                                    *)
(***************************************************************************)
MaxBatch == 2
MaxIds == 3
MaxInFlight == 2

(***************************************************************************)
(* Byte strings used as inputs.                                            *)
(***************************************************************************)
\* "A" (base64 "QQ==") and five bytes, two of them not text (base64
\* "QkL/AEI=").
BlobA == <<65>>
BlobBin == <<66, 66, 255, 0, 66>>
Blobs == {BlobA, BlobBin}

\* "loc1", "loc2", "zz".
Loc1 == <<108, 111, 99, 49>>
Loc2 == <<108, 111, 99, 50>>
LocUnknown == <<122, 122>>
Locators == {Loc1, Loc2}

\* The blob service's naming of a stored blob: one locator per content.
LocatorOf(blob) == IF blob = BlobA THEN Loc1 ELSE Loc2

(***************************************************************************)
(* encoding/base64, StdEncoding: padded, alphabet A-Z a-z 0-9 + /.         *)
(***************************************************************************)
Base64Char(v) ==
  IF v < 26 THEN 65 + v
  ELSE IF v < 52 THEN 97 + (v - 26)
  ELSE IF v < 62 THEN 48 + (v - 52)
  ELSE IF v = 62 THEN 43 ELSE 47

\* -1 for a byte outside the alphabet.
Base64Val(c) ==
  IF c >= 65 /\ c <= 90 THEN c - 65
  ELSE IF c >= 97 /\ c <= 122 THEN c - 97 + 26
  ELSE IF c >= 48 /\ c <= 57 THEN c - 48 + 52
  ELSE IF c = 43 THEN 62
  ELSE IF c = 47 THEN 63 ELSE -1

RECURSIVE EncodeToString(_)
EncodeToString(src) ==
  IF Len(src) = 0 THEN <<>>
  ELSE IF Len(src) = 1 THEN
    << Base64Char(src[1] \div 4), Base64Char((src[1] % 4) * 16), 61, 61 >>
  ELSE IF Len(src) = 2 THEN
    << Base64Char(src[1] \div 4),
       Base64Char((src[1] % 4) * 16 + src[2] \div 16),
       Base64Char((src[2] % 16) * 4), 61 >>
  ELSE
    << Base64Char(src[1] \div 4),
       Base64Char((src[1] % 4) * 16 + src[2] \div 16),
       Base64Char((src[2] % 16) * 4 + src[3] \div 64),
       Base64Char(src[3] % 64) >> \o EncodeToString(SubSeq(src, 4, Len(src)))

\* DecodeString: [err, bytes].  Every quantum has four bytes; only the last one
\* may end in one or two '='; anything else is a CorruptInputError.
RECURSIVE DecodeString(_)
DecodeString(s) ==
  IF Len(s) = 0 THEN [err |-> FALSE, bytes |-> <<>>]
  ELSE IF Len(s) < 4 THEN [err |-> TRUE, bytes |-> <<>>]
  ELSE
    LET a == Base64Val(s[1])
        b == Base64Val(s[2])
        c == Base64Val(s[3])
        d == Base64Val(s[4])
        last == Len(s) = 4
        b1 == a * 4 + b \div 16
        b2 == (b % 16) * 16 + c \div 4
        b3 == (c % 4) * 64 + d
    IN IF a < 0 \/ b < 0 THEN [err |-> TRUE, bytes |-> <<>>]
       ELSE IF last /\ s[3] = 61 /\ s[4] = 61 THEN [err |-> FALSE, bytes |-> <<b1>>]
       ELSE IF c < 0 THEN [err |-> TRUE, bytes |-> <<>>]
       ELSE IF last /\ s[4] = 61 THEN [err |-> FALSE, bytes |-> <<b1, b2>>]
       ELSE IF d < 0 THEN [err |-> TRUE, bytes |-> <<>>]
       ELSE LET rest == DecodeString(SubSeq(s, 5, Len(s)))
            IN IF rest.err THEN [err |-> TRUE, bytes |-> <<>>]
               ELSE [err |-> FALSE, bytes |-> <<b1, b2, b3>> \o rest.bytes]

(***************************************************************************)
(* Heights and their identifiers (GetIDs).                                 *)
(***************************************************************************)
\* Limb values the heights are built from: 0x0000, 0x0001, 0x2300 (the
\* bytes '#' and NUL) and 0xFFFF.
Limbs == {0, 1, 8960, 65535}
Heights == Limbs \X Limbs \X Limbs \X Limbs

\* A conversion that keeps the high half instead: uint32(height >> 32).
Uint32HighHalf(height) == << height[1], height[2] >>

\* uint32(height): the low 32 bits, as two 16-bit limbs.
Uint32(height) == << height[3], height[4] >>

\* The same bytes in little-endian order (binary.LittleEndian.PutUint32).
PutUint32LittleEndian(b, v) ==
  [ b EXCEPT ![1] = v[2] % 256, ![2] = v[2] \div 256,
             ![3] = v[1] % 256, ![4] = v[1] \div 256 ]

\* binary.BigEndian.PutUint32(b, v): b[0..3] = v's bytes, most significant
\* first (Go index 0 is TLA+ index 1).
PutUint32(b, v) ==
  [ b EXCEPT ![1] = v[1] \div 256, ![2] = v[1] % 256,
             ![3] = v[2] \div 256, ![4] = v[2] % 256 ]

\* make([]byte, n)
MakeBytes(n) == [ k \in 1..n |-> 0 ]


(***************************************************************************)
(* net/http and net/url as Get uses them.                                  *)
(***************************************************************************)
LocAmp == Loc1 \o <<38, 120>>

\* The prefix of s before the first byte c (all of s when c does not occur).
RECURSIVE CutAt(_, _)
CutAt(s, c) ==
  IF Len(s) = 0 \/ s[1] = c THEN <<>>
  ELSE <<s[1]>> \o CutAt(Tail(s), c)

IsCTLByte(b) == b < 32 \/ b = 127

\* http.NewRequest("GET", fmt.Sprintf("%s/api/get-blob?metadata_uri=%s",
\* ServerURL, metadataUri), nil).  The identifier is pasted unescaped; url.Parse
\* cuts the fragment at the first '#' and rejects a URL with a control byte
\* before it.  query is what follows "metadata_uri=" in the request sent.
NewRequest(metadataUri) ==
  LET u == CutAt(metadataUri, 35)
  IN [ err |-> \E k \in 1..Len(u) : IsCTLByte(u[k]), query |-> u ]

\* The service's reading of the metadata_uri parameter: the query string ends
\* the parameter at '&' and a '+' stands for a space.
QueryValue(query) ==
  LET v == CutAt(query, 38)
  IN [ k \in 1..Len(v) |-> IF v[k] = 43 THEN 32 ELSE v[k] ]

(***************************************************************************)
(* State.                                                                  *)
(***************************************************************************)
VARIABLES
  store,       \* the blob service: locator -> base64 text of the blob
  op,          \* the facade operation in progress, "idle" when none
  daBlobs,     \* Submit: the batch
  mpc,         \* Submit: where the calling goroutine is
  spawned,     \* Submit: units started by the for loop
  upc,         \* Submit: where each per-blob goroutine is
  resp,        \* Submit: each unit's *http.Response
  uerr,        \* Submit: the error each unit is about to send
  resultChan,  \* Submit: buffered channel of PublishResponse
  errorChan,   \* Submit: buffered channel of error
  closed,      \* Submit: which of the two channels are closed
  wg,          \* Submit: sync.WaitGroup counter
  mu,          \* Submit: sync.Mutex holder, 0 when free
  sup,         \* Submit: where the supervising goroutine is
  ids,         \* Submit: the identifiers collected so far
  subRet,      \* Submit: what the caller received
  hist,        \* Submit: what the units have done (requests and sends)
  getIds,      \* Get: the input identifiers
  gi,          \* Get: loop position (1-based)
  blobs,       \* Get: blobs decoded so far
  getReqs,     \* Get: the fetch requests sent, in order
  getRet,      \* Get: what the caller received
  height,      \* GetIDs: the input
  idsRet,      \* GetIDs: what the caller received
  sunrise,     \* the adapter: its context and configuration
  ctxDone,     \* whether the caller's context has been cancelled
  callRet,     \* MaxBlobSize, GetProofs, Commit, Validate: input and result
  parked       \* the frame of a second Submit call that is not running now

subVars == << daBlobs, mpc, spawned, upc, resp, uerr, resultChan, errorChan,
              closed, wg, mu, sup, ids, subRet, hist >>
getVars == << getIds, gi, blobs, getReqs, getRet >>
idsVars == << height, idsRet >>
otherVars == << sunrise, ctxDone, callRet, parked >>
vars == << store, op, subVars, getVars, idsVars, otherVars >>

Nil == "nil"
NoResp == [ status |-> 0, valid |-> FALSE, hasUri |-> FALSE, uri |-> <<>> ]
NoRet == [ kind |-> "pending", ids |-> <<>>, err |-> Nil ]
NoGetRet == [ kind |-> "pending", blobs |-> <<>>, err |-> Nil ]
NoIdsRet == [ kind |-> "pending", ids |-> <<>>, err |-> Nil ]
ZeroHeight == << 0, 0, 0, 0 >>
NoHist == [ posts |-> <<>>, res |-> <<>>, err |-> <<>>, order |-> <<>> ]
NoCallRet == [ arg |-> <<>>, value |-> <<>>, err |-> Nil ]

\* The configuration read from config.json by the command.
Config == [ ServerURL |-> "http://server", DataShardCount |-> 4,
            ParityShardCount |-> 2 ]

\* NewSunriseDA: the adapter holds only its context and configuration.
NewSunriseDA(ctx, config) == [ ctx |-> ctx, config |-> config ]

\* The local variables of a Submit call that has not started.
IdleFrame ==
  [ op |-> "idle", daBlobs |-> <<>>, mpc |-> "none", spawned |-> 0,
    upc |-> <<>>, resp |-> <<>>, uerr |-> <<>>, resultChan |-> <<>>,
    errorChan |-> <<>>, closed |-> {}, wg |-> 0, mu |-> 0, sup |-> "none",
    ids |-> <<>>, subRet |-> NoRet, hist |-> NoHist ]

Units == 1..Len(daBlobs)

\* Channels one slot short: make(chan T, len(daBlobs)-1).
ChanCapShort == Len(daBlobs) - 1

\* make(chan T, len(daBlobs))
ChanCap == Len(daBlobs)

SubIdle ==
  /\ daBlobs = <<>> /\ mpc = "none" /\ spawned = 0
  /\ upc = <<>> /\ resp = <<>> /\ uerr = <<>>
  /\ resultChan = <<>> /\ errorChan = <<>> /\ closed = {}
  /\ wg = 0 /\ mu = 0 /\ sup = "none" /\ ids = <<>> /\ subRet = NoRet
  /\ hist = NoHist

GetIdle ==
  /\ getIds = <<>> /\ gi = 1 /\ blobs = <<>> /\ getReqs = <<>>
  /\ getRet = NoGetRet

IdsIdle == height = ZeroHeight /\ idsRet = NoIdsRet

\* The adapter as the command builds it, no call made yet, the caller's
\* context live.
OtherIdle ==
  /\ sunrise = NewSunriseDA("Background", Config)
  /\ ctxDone = FALSE
  /\ callRet = NoCallRet
  /\ parked = IdleFrame

Init ==
  /\ store = <<>>
  /\ op = "idle"
  /\ SubIdle /\ GetIdle /\ IdsIdle /\ OtherIdle


(***************************************************************************)
(* The blob service's publish endpoint, POST /api/publish.                 *)
(***************************************************************************)
\* json.Marshal(PublishRequest{...}): a struct of strings and ints always
\* marshals, so the error branch of line 83 is never taken.
JsonMarshal(requestData) == [ err |-> FALSE, body |-> requestData ]

\* The answers the service can give to a publish request: the blob stored and
\* its locator returned; a 5xx answer with a JSON error object; a 5xx answer
\* whose body is not JSON.
PublishAnswers(requestBody) ==
  LET L == LocatorOf(DecodeString(requestBody.Blob).bytes)
  IN { [ status |-> 200, valid |-> TRUE, hasUri |-> TRUE, uri |-> L ],
       [ status |-> 500, valid |-> TRUE, hasUri |-> FALSE, uri |-> <<>> ],
       [ status |-> 500, valid |-> FALSE, hasUri |-> FALSE, uri |-> <<>> ] }

\* The store after the service has given answer r to the request.
Stored(st, requestBody, r) ==
  IF r.status = 200 /\ r.valid
    THEN [ l \in (DOMAIN st) \cup {r.uri} |->
             IF l = r.uri THEN requestBody.Blob ELSE st[l] ]
    ELSE st

\* json.Unmarshal(responseData, &publishResponse): a missing field leaves the
\* zero value "".
UnmarshalPublish(r) ==
  [ err |-> ~r.valid, MetadataUri |-> IF r.hasUri THEN r.uri ELSE <<>> ]

(***************************************************************************)
(* Submit.                                                                 *)
(***************************************************************************)
\* Lines 60-66: the call starts; channels, wait group and mutex are made.
SubmitCall(batch) ==
  /\ op = "idle"
  /\ op' = "Submit"
  /\ daBlobs' = batch
  /\ mpc' = "loop"
  /\ spawned' = 0
  /\ upc' = [ i \in 1..Len(batch) |-> "unborn" ]
  /\ resp' = [ i \in 1..Len(batch) |-> NoResp ]
  /\ uerr' = [ i \in 1..Len(batch) |-> Nil ]
  /\ resultChan' = <<>> /\ errorChan' = <<>> /\ closed' = {}
  /\ wg' = 0 /\ mu' = 0 /\ sup' = "none" /\ ids' = <<>> /\ subRet' = NoRet
  /\ hist' = [ posts |-> [ i \in 1..Len(batch) |-> 0 ],
               res |-> [ i \in 1..Len(batch) |-> 0 ],
               err |-> [ i \in 1..Len(batch) |-> 0 ],
               order |-> <<>> ]
  /\ UNCHANGED << store, getVars, idsVars, otherVars >>

\* Lines 68-72: wg.Add(1); go func(blob).
SubmitSpawn ==
  /\ op = "Submit" /\ mpc = "loop" /\ spawned < Len(daBlobs)
  /\ wg' = wg + 1
  /\ spawned' = spawned + 1
  /\ upc' = [ upc EXCEPT ![spawned + 1] = "start" ]
  /\ UNCHANGED << store, op, daBlobs, mpc, resp, uerr, resultChan, errorChan,
                  closed, mu, sup, ids, subRet, getVars, idsVars, hist,
                  otherVars >>

\* Lines 125-129: the loop is over; go func() { wg.Wait(); ... }.
SubmitSupervise ==
  /\ op = "Submit" /\ mpc = "loop" /\ spawned = Len(daBlobs)
  /\ sup' = "wait"
  /\ mpc' = "collect"
  /\ UNCHANGED << store, op, daBlobs, spawned, upc, resp, uerr, resultChan,
                  errorChan, closed, wg, mu, ids, subRet, getVars, idsVars, hist,
                  otherVars >>

\* A publish with a retry: after a transport error the unit posts again.
UnitPostRetry(i) ==
  /\ op = "Submit" /\ i \in Units /\ upc[i] = "start"
  /\ LET encodedBlob == EncodeToString(daBlobs[i])
         m == JsonMarshal([ Blob |-> encodedBlob,
                            DataShardCount |-> sunrise.config.DataShardCount,
                            ParityShardCount |->
                              sunrise.config.ParityShardCount,
                            Protocol |-> "ipfs" ])
     IN /\ hist' = [ hist EXCEPT !.posts[i] = @ + 1 ]
        /\ \/ UNCHANGED << uerr, upc, resp, store >>
           \/ \E r \in PublishAnswers(m.body) :
                /\ resp' = [ resp EXCEPT ![i] = r ]
                /\ store' = Stored(store, m.body, r)
                /\ upc' = [ upc EXCEPT ![i] = "posted" ]
                /\ UNCHANGED uerr
  /\ UNCHANGED << op, daBlobs, mpc, spawned, resultChan, errorChan, closed,
                  wg, mu, sup, ids, subRet, getVars, idsVars, otherVars >>

\* Lines 74-92: encode, marshal, http.Post.  Post fails (transport error) or
\* hands back the service's answer, whatever its status.
UnitPost(i) ==
  /\ op = "Submit" /\ i \in Units /\ upc[i] = "start"
  /\ LET encodedBlob == EncodeToString(daBlobs[i])
         m == JsonMarshal([ Blob |-> encodedBlob,
                            DataShardCount |-> sunrise.config.DataShardCount,
                            ParityShardCount |->
                              sunrise.config.ParityShardCount,
                            Protocol |-> "ipfs" ])
     IN IF m.err
          THEN /\ uerr' = [ uerr EXCEPT ![i] = "marshal" ]
               /\ upc' = [ upc EXCEPT ![i] = "sendErr" ]
               /\ UNCHANGED << resp, store, hist >>
          ELSE /\ hist' = [ hist EXCEPT !.posts[i] = @ + 1 ]
               /\ \/ /\ uerr' = [ uerr EXCEPT ![i] = "transport" ]
                     /\ upc' = [ upc EXCEPT ![i] = "sendErr" ]
                     /\ UNCHANGED << resp, store >>
                  \/ \E r \in PublishAnswers(m.body) :
                       /\ resp' = [ resp EXCEPT ![i] = r ]
                       /\ store' = Stored(store, m.body, r)
                       /\ upc' = [ upc EXCEPT ![i] = "posted" ]
                       /\ UNCHANGED uerr
  /\ UNCHANGED << op, daBlobs, mpc, spawned, resultChan, errorChan, closed,
                  wg, mu, sup, ids, subRet, getVars, idsVars, otherVars >>

\* Lines 101-112: io.ReadAll(response.Body), then json.Unmarshal.  The status
\* code is not looked at.
UnitReadBody(i) ==
  /\ op = "Submit" /\ i \in Units /\ upc[i] = "posted"
  /\ \/ /\ uerr' = [ uerr EXCEPT ![i] = "bodyRead" ]
        /\ upc' = [ upc EXCEPT ![i] = "sendErr" ]
     \/ IF UnmarshalPublish(resp[i]).err
          THEN /\ uerr' = [ uerr EXCEPT ![i] = "jsonDecode" ]
               /\ upc' = [ upc EXCEPT ![i] = "sendErr" ]
          ELSE /\ upc' = [ upc EXCEPT ![i] = "parsed" ]
               /\ UNCHANGED uerr
  /\ UNCHANGED << store, op, daBlobs, mpc, spawned, resp, resultChan,
                  errorChan, closed, wg, mu, sup, ids, subRet, getVars,
                  idsVars, hist,
                  otherVars >>

\* Lines 84, 90, 103, 110: errorChan <- err; return.
UnitSendErr(i) ==
  /\ op = "Submit" /\ i \in Units /\ upc[i] = "sendErr"
  /\ "errorChan" \notin closed
  /\ Len(errorChan) < ChanCap
  /\ errorChan' = Append(errorChan, uerr[i])
  /\ hist' = [ hist EXCEPT !.err[i] = @ + 1 ]
  /\ upc' = [ upc EXCEPT ![i] = "exit" ]
  /\ UNCHANGED << store, op, daBlobs, mpc, spawned, resp, uerr, resultChan,
                  closed, wg, mu, sup, ids, subRet, getVars, idsVars, otherVars >>

\* Line 115: mu.Lock().
UnitLock(i) ==
  /\ op = "Submit" /\ i \in Units /\ upc[i] = "parsed"
  /\ mu = 0
  /\ mu' = i
  /\ upc' = [ upc EXCEPT ![i] = "locked" ]
  /\ UNCHANGED << store, op, daBlobs, mpc, spawned, resp, uerr, resultChan,
                  errorChan, closed, wg, sup, ids, subRet, getVars, idsVars, hist,
                  otherVars >>

\* Lines 116-119: resultChan <- PublishResponse{...}.
UnitSendResult(i) ==
  /\ op = "Submit" /\ i \in Units /\ upc[i] = "locked"
  /\ "resultChan" \notin closed
  /\ Len(resultChan) < ChanCap
  /\ resultChan' = Append(resultChan,
                     [ MetadataUri |-> UnmarshalPublish(resp[i]).MetadataUri ])
  /\ hist' = [ hist EXCEPT
                 !.res[i] = @ + 1,
                 !.order = Append(@, UnmarshalPublish(resp[i]).MetadataUri) ]
  /\ upc' = [ upc EXCEPT ![i] = "sent" ]
  /\ UNCHANGED << store, op, daBlobs, mpc, spawned, resp, uerr, errorChan,
                  closed, wg, mu, sup, ids, subRet, getVars, idsVars, otherVars >>

\* A unit that leaves without mu.Unlock().
UnitLeaveLocked(i) ==
  /\ op = "Submit" /\ i \in Units /\ upc[i] = "sent"
  /\ upc' = [ upc EXCEPT ![i] = "exit" ]
  /\ UNCHANGED << store, op, daBlobs, mpc, spawned, resp, uerr, resultChan,
                  errorChan, closed, wg, mu, sup, ids, subRet, getVars, idsVars,
                  hist, otherVars >>

\* Line 120: mu.Unlock().
UnitUnlock(i) ==
  /\ op = "Submit" /\ i \in Units /\ upc[i] = "sent"
  /\ mu' = 0
  /\ upc' = [ upc EXCEPT ![i] = "exit" ]
  /\ UNCHANGED << store, op, daBlobs, mpc, spawned, resp, uerr, resultChan,
                  errorChan, closed, wg, sup, ids, subRet, getVars, idsVars, hist,
                  otherVars >>

\* Lines 73, 94-99: the deferred calls, response.Body.Close() and wg.Done().
UnitDone(i) ==
  /\ op = "Submit" /\ i \in Units /\ upc[i] = "exit"
  /\ wg' = wg - 1
  /\ upc' = [ upc EXCEPT ![i] = "done" ]
  /\ UNCHANGED << store, op, daBlobs, mpc, spawned, resp, uerr, resultChan,
                  errorChan, closed, mu, sup, ids, subRet, getVars, idsVars, hist,
                  otherVars >>

\* A supervisor that does not wait for the units: wg.Wait() left out.
SupNoWait ==
  /\ op = "Submit" /\ sup = "wait"
  /\ sup' = "closeResult"
  /\ UNCHANGED << store, op, daBlobs, mpc, spawned, upc, resp, uerr,
                  resultChan, errorChan, closed, wg, mu, ids, subRet, getVars,
                  idsVars, hist, otherVars >>

\* Line 126: wg.Wait() returns when the counter is zero.
SupWait ==
  /\ op = "Submit" /\ sup = "wait" /\ wg = 0
  /\ sup' = "closeResult"
  /\ UNCHANGED << store, op, daBlobs, mpc, spawned, upc, resp, uerr,
                  resultChan, errorChan, closed, wg, mu, ids, subRet, getVars,
                  idsVars, hist,
                  otherVars >>

\* Line 127: close(resultChan).
SupCloseResult ==
  /\ op = "Submit" /\ sup = "closeResult"
  /\ closed' = closed \cup {"resultChan"}
  /\ sup' = "closeError"
  /\ UNCHANGED << store, op, daBlobs, mpc, spawned, upc, resp, uerr,
                  resultChan, errorChan, wg, mu, ids, subRet, getVars,
                  idsVars, hist,
                  otherVars >>

\* Line 128: close(errorChan).
SupCloseError ==
  /\ op = "Submit" /\ sup = "closeError"
  /\ closed' = closed \cup {"errorChan"}
  /\ sup' = "done"
  /\ UNCHANGED << store, op, daBlobs, mpc, spawned, upc, resp, uerr,
                  resultChan, errorChan, wg, mu, ids, subRet, getVars,
                  idsVars, hist,
                  otherVars >>

\* A loop that builds the list back to front:
\* ids = append([]da.ID{[]byte(result.MetadataUri)}, ids...).
SubmitCollectFront ==
  /\ op = "Submit" /\ mpc = "collect" /\ resultChan # <<>>
  /\ ids' = << Head(resultChan).MetadataUri >> \o ids
  /\ resultChan' = Tail(resultChan)
  /\ UNCHANGED << store, op, daBlobs, mpc, spawned, upc, resp, uerr,
                  errorChan, closed, wg, mu, sup, subRet, getVars, idsVars, hist,
                  otherVars >>

\* Lines 134-136: one turn of for result := range resultChan.
SubmitCollect ==
  /\ op = "Submit" /\ mpc = "collect" /\ resultChan # <<>>
  /\ ids' = Append(ids, Head(resultChan).MetadataUri)
  /\ resultChan' = Tail(resultChan)
  /\ UNCHANGED << store, op, daBlobs, mpc, spawned, upc, resp, uerr,
                  errorChan, closed, wg, mu, sup, subRet, getVars, idsVars, hist,
                  otherVars >>

\* A loop that stops as soon as the channel is found empty, closed or not.
SubmitRangeEndOnEmpty ==
  /\ op = "Submit" /\ mpc = "collect"
  /\ resultChan = <<>>
  /\ mpc' = "checkErr"
  /\ UNCHANGED << store, op, daBlobs, spawned, upc, resp, uerr, resultChan,
                  errorChan, closed, wg, mu, sup, ids, subRet, getVars,
                  idsVars, hist, otherVars >>

\* Line 134: the range loop ends when the channel is closed and drained.
SubmitRangeEnd ==
  /\ op = "Submit" /\ mpc = "collect"
  /\ resultChan = <<>> /\ "resultChan" \in closed
  /\ mpc' = "checkErr"
  /\ UNCHANGED << store, op, daBlobs, spawned, upc, resp, uerr, resultChan,
                  errorChan, closed, wg, mu, sup, ids, subRet, getVars,
                  idsVars, hist,
                  otherVars >>

\* A return that hands out the identifiers collected so far: return ids, err.
ReturnErrWithIds(err) == [ kind |-> "error", ids |-> ids, err |-> err ]

\* Line 140: return nil, err.
ReturnErr(err) == [ kind |-> "error", ids |-> <<>>, err |-> err ]

\* Line 142: the function body ends with no return statement: the caller is
\* handed neither the collected identifiers nor an error.
FallOffEnd == [ kind |-> "none", ids |-> <<>>, err |-> Nil ]

\* Lines 139-142: err := <-errorChan receives the first error sent, or nil
\* from the closed and empty channel.
SubmitCheckErr ==
  /\ op = "Submit" /\ mpc = "checkErr"
  /\ errorChan # <<>> \/ "errorChan" \in closed
  /\ LET err == IF errorChan # <<>> THEN Head(errorChan) ELSE Nil
     IN /\ subRet' = IF err # Nil THEN ReturnErr(err) ELSE FallOffEnd
        /\ errorChan' = IF errorChan # <<>> THEN Tail(errorChan) ELSE errorChan
  /\ mpc' = "done"
  /\ UNCHANGED << store, op, daBlobs, spawned, upc, resp, uerr, resultChan,
                  closed, wg, mu, sup, ids, getVars, idsVars, hist,
                  otherVars >>

\* Every goroutine of the call is over.
SubmitOver == mpc = "done" /\ sup = "done"

\* The caller goes on to its next operation.
SubmitLeave ==
  /\ op = "Submit" /\ SubmitOver
  /\ op' = "idle"
  /\ daBlobs' = <<>> /\ mpc' = "none" /\ spawned' = 0
  /\ upc' = <<>> /\ resp' = <<>> /\ uerr' = <<>>
  /\ resultChan' = <<>> /\ errorChan' = <<>> /\ closed' = {}
  /\ wg' = 0 /\ mu' = 0 /\ sup' = "none" /\ ids' = <<>> /\ subRet' = NoRet
  /\ hist' = NoHist
  /\ UNCHANGED << store, getVars, idsVars, otherVars >>


(***************************************************************************)
(* The blob service's fetch endpoint, GET /api/get-blob?metadata_uri=...   *)
(***************************************************************************)
\* Text that is not base64 ("QQ=": a quantum cut short).
CorruptBase64 == <<81, 81, 61>>

\* The answers the service can give to a fetch of locator q: the stored text
\* when it holds q; a non-2xx answer with a JSON error object; a 5xx answer
\* with a text body; a 2xx answer whose blob field is not base64.
GetAnswers(st, q) ==
  { [ status |-> 200, valid |-> TRUE, hasBlob |-> TRUE, blob |-> st[l] ] :
      l \in (DOMAIN st) \cap {q} }
  \cup
  { [ status |-> IF q \in DOMAIN st THEN 500 ELSE 404,
      valid |-> TRUE, hasBlob |-> FALSE, blob |-> <<>> ],
    [ status |-> 500, valid |-> FALSE, hasBlob |-> FALSE, blob |-> <<>> ],
    [ status |-> 200, valid |-> TRUE, hasBlob |-> TRUE, blob |-> CorruptBase64 ] }

\* json.Unmarshal(responseData, &blobResponse): a missing field leaves "".
UnmarshalBlob(r) ==
  [ err |-> ~r.valid, Blob |-> IF r.hasBlob THEN r.blob ELSE <<>> ]

(***************************************************************************)
(* Get.                                                                    *)
(***************************************************************************)
\* A return that hands out the blobs fetched so far: return blobs, err.
GetReturnErrWithBlobs(err) == [ kind |-> "error", blobs |-> blobs, err |-> err ]

\* Lines 151, 156, 166, 172, 179: return nil, err.
GetReturnErr(err) == [ kind |-> "error", blobs |-> <<>>, err |-> err ]

\* A slice built front to back: blobs = append([][]byte{decodedBlob}, blobs...).
PrependBlob(bs, decodedBlob) == << decodedBlob >> \o bs

\* Line 182: blobs = append(blobs, decodedBlob).
AppendBlob(bs, decodedBlob) == Append(bs, decodedBlob)

\* Line 184: return blobs, nil.
GetReturnBlobs(bs) == [ kind |-> "ok", blobs |-> bs, err |-> Nil ]

\* Lines 144-146.
GetCall(idList) ==
  /\ op = "idle"
  /\ op' = "Get"
  /\ getIds' = idList
  /\ gi' = 1 /\ blobs' = <<>> /\ getReqs' = <<>> /\ getRet' = NoGetRet
  /\ UNCHANGED << store, subVars, idsVars, otherVars >>

\* What one answer of the service makes of one turn of the loop, lines
\* 164-182: [err, blob].
FetchResult(r, readOk) ==
  LET blobResponse == UnmarshalBlob(r)
      decodedBlob == DecodeString(blobResponse.Blob)
  IN IF ~readOk THEN [ err |-> "bodyRead", blob |-> <<>> ]
     ELSE IF blobResponse.err THEN [ err |-> "jsonDecode", blob |-> <<>> ]
     ELSE IF decodedBlob.err THEN [ err |-> "base64", blob |-> <<>> ]
     ELSE [ err |-> Nil, blob |-> decodedBlob.bytes ]

\* Lines 147-183: one turn of for _, id := range ids.
GetIter ==
  /\ op = "Get" /\ getRet.kind = "pending" /\ gi <= Len(getIds)
  /\ LET metadataUri == getIds[gi]
         req == NewRequest(metadataUri)
     IN IF req.err
          THEN /\ getRet' = GetReturnErr("newRequest")
               /\ UNCHANGED << gi, blobs, getReqs >>
          ELSE \/ /\ getReqs' = Append(getReqs,
                       [ id |-> metadataUri, query |-> req.query, status |-> 0 ])
                  /\ getRet' = GetReturnErr("transport")
                  /\ UNCHANGED << gi, blobs >>
               \/ \E r \in GetAnswers(store, QueryValue(req.query)) :
                  \E readOk \in BOOLEAN :
                    LET f == FetchResult(r, readOk)
                    IN /\ getReqs' = Append(getReqs,
                            [ id |-> metadataUri, query |-> req.query,
                              status |-> r.status ])
                       /\ IF f.err # Nil
                            THEN /\ getRet' = GetReturnErr(f.err)
                                 /\ UNCHANGED << gi, blobs >>
                            ELSE /\ blobs' = AppendBlob(blobs, f.blob)
                                 /\ gi' = gi + 1
                                 /\ UNCHANGED getRet
  /\ UNCHANGED << store, op, getIds, subVars, idsVars, otherVars >>

\* Line 184: the loop is over.
GetReturn ==
  /\ op = "Get" /\ getRet.kind = "pending" /\ gi > Len(getIds)
  /\ getRet' = GetReturnBlobs(blobs)
  /\ UNCHANGED << store, op, getIds, gi, blobs, getReqs, subVars, idsVars, otherVars >>

\* The caller goes on to its next operation.
GetLeave ==
  /\ op = "Get" /\ getRet.kind # "pending"
  /\ op' = "idle"
  /\ getIds' = <<>> /\ gi' = 1 /\ blobs' = <<>> /\ getReqs' = <<>>
  /\ getRet' = NoGetRet
  /\ UNCHANGED << store, subVars, idsVars, otherVars >>

(***************************************************************************)
(* GetIDs.                                                                 *)
(***************************************************************************)
\* Lines 187-193.
GetIDs(h) ==
  LET heightAsUint32 == Uint32(h)
      b == PutUint32(MakeBytes(8), heightAsUint32)
  IN [ kind |-> "ok", ids |-> << b >>, err |-> Nil ]

GetIDsCall(h) ==
  /\ op = "idle"
  /\ op' = "GetIDs"
  /\ height' = h
  /\ idsRet' = GetIDs(h)
  /\ UNCHANGED << store, subVars, getVars, otherVars >>

\* The caller goes on to its next operation.
GetIDsLeave ==
  /\ op = "GetIDs"
  /\ op' = "idle"
  /\ height' = ZeroHeight /\ idsRet' = NoIdsRet
  /\ UNCHANGED << store, subVars, getVars, otherVars >>

(***************************************************************************)
(* The caller's inputs and the specification.                              *)
(***************************************************************************)
SeqsUpTo(S, n) == UNION { [ 1..k -> S ] : k \in 0..n }

Batches == SeqsUpTo(Blobs, MaxBatch)

\* Identifiers a caller may hand to Get: locators, other byte strings, and
\* identifiers GetIDs hands out (for the heights 1, 0x23000000 and
\* 0x0000000123000001).
HeightIds ==
  { GetIDs(h).ids[1] : h \in { <<0, 0, 0, 1>>, <<0, 0, 8960, 0>>, <<0, 1, 8960, 1>> } }
GetIdUniverse == Locators \cup {LocUnknown, LocAmp} \cup HeightIds
IdLists == SeqsUpTo(GetIdUniverse, MaxIds)

SubmitSteps ==
  \/ SubmitSpawn
  \/ SubmitSupervise
  \/ \E i \in Units : UnitPost(i)
  \/ \E i \in Units : UnitReadBody(i)
  \/ \E i \in Units : UnitSendErr(i)
  \/ \E i \in Units : UnitLock(i)
  \/ \E i \in Units : UnitSendResult(i)
  \/ \E i \in Units : UnitUnlock(i)
  \/ \E i \in Units : UnitDone(i)
  \/ SupWait
  \/ SupCloseResult
  \/ SupCloseError
  \/ SubmitCollect
  \/ SubmitRangeEnd
  \/ SubmitCheckErr

SubmitNext ==
  \/ \E batch \in Batches : SubmitCall(batch)
  \/ SubmitSteps

GetNext ==
  \/ op = "idle" /\ \E idList \in IdLists : GetCall(idList)
  \/ GetIter
  \/ GetReturn
  \/ GetLeave

IdsNext ==
  \/ \E h \in Heights : GetIDsCall(h)
  \/ GetIDsLeave

(***************************************************************************)
(* MaxBlobSize, GetProofs, Commit, Validate.                               *)
(***************************************************************************)
\* A size limit that honours the context: if ctx.Err() != nil, return it.
MaxBlobSizeChecked(ctx) ==
  IF ctx THEN [ value |-> 0, err |-> "canceled" ]
         ELSE [ value |-> 64 * 64 * 500, err |-> Nil ]

\* Lines 55-58: var maxBlobSize uint64 = 64 * 64 * 500; return maxBlobSize, nil.
\* ctx stands for the context's state, TRUE when cancelled.
MaxBlobSize(ctx) == [ value |-> 64 * 64 * 500, err |-> Nil ]

\* A proof lookup that answers with one (empty) proof per identifier.
GetProofsPerId(ctx, idList) ==
  [ value |-> [ k \in 1..Len(idList) |-> <<>> ], err |-> Nil ]

\* Lines 195-199: var proofs []da.Proof; return proofs, nil.
GetProofs(ctx, idList) == [ value |-> <<>>, err |-> Nil ]

\* Lines 201-205: var commitments []da.Commitment; return commitments, nil.
Commit(ctx, batch) == [ value |-> <<>>, err |-> Nil ]

\* Lines 207-211: var valid []bool; return valid, nil.
Validate(ctx, idList, daProofs) == [ value |-> <<>>, err |-> Nil ]

\* The proof lists a caller may pass to Validate.
ProofLists == { <<>>, << <<112>> >>, << <<112>>, <<>> >> }

ConstOps == { "MaxBlobSize", "GetProofs", "Commit", "Validate" }

\* The result of operation name on input arg, kept with its input.
Called(name, arg, ret) ==
  /\ op = "idle"
  /\ op' = name
  /\ callRet' = [ arg |-> arg, value |-> ret.value, err |-> ret.err ]
  /\ UNCHANGED << store, subVars, getVars, idsVars, sunrise, ctxDone, parked >>

MaxBlobSizeCall == Called("MaxBlobSize", <<>>, MaxBlobSize(ctxDone))

GetProofsCall(idList) == Called("GetProofs", idList, GetProofs(ctxDone, idList))

CommitCall(batch) == Called("Commit", batch, Commit(ctxDone, batch))

ValidateCall(idList, daProofs) ==
  Called("Validate", << idList, daProofs >>,
         Validate(ctxDone, idList, daProofs))

\* The caller goes on to its next operation.
ConstLeave ==
  /\ op \in ConstOps
  /\ op' = "idle"
  /\ callRet' = NoCallRet
  /\ UNCHANGED << store, subVars, getVars, idsVars, sunrise, ctxDone, parked >>

ConstNext ==
  \/ MaxBlobSizeCall
  \/ op = "idle" /\ \E idList \in IdLists : GetProofsCall(idList)
  \/ op = "idle" /\ \E batch \in Batches : CommitCall(batch)
  \/ op = "idle" /\ \E idList \in IdLists : \E daProofs \in ProofLists :
       ValidateCall(idList, daProofs)
  \/ ConstLeave

\* The facade: the caller runs one operation after another.
Next ==
  \/ SubmitNext
  \/ SubmitLeave
  \/ GetNext
  \/ IdsNext
  \/ ConstNext

Spec == Init /\ [][Next]_vars

\* One Submit call on a fresh service.
SpecSubmit == Init /\ [][SubmitNext]_vars

\* What the service can hold: the base64 text of each blob published so far,
\* under its locator.
StoreOf(S) ==
  [ l \in { LocatorOf(b) : b \in S } |->
      EncodeToString(CHOOSE b \in S : LocatorOf(b) = l) ]

InitGet ==
  /\ store \in { StoreOf(S) : S \in SUBSET Blobs }
  /\ op = "idle"
  /\ SubIdle /\ GetIdle /\ IdsIdle /\ OtherIdle

\* Get calls against a service that holds any of the blobs.
SpecGet == InitGet /\ [][GetNext]_vars

\* GetIDs calls.
SpecIds == Init /\ [][IdsNext]_vars


(***************************************************************************)
(* Vocabulary of the properties.                                           *)
(***************************************************************************)
\* The calling goroutine of Submit has finished.
SubmitFinished == op = "Submit" /\ mpc = "done"

\* Unit i got an answer from the service.
Answered(i) == resp[i] # NoResp

\* Unit i's publish call failed in the unit's eyes: it set out to send an error.
UnitFailed(i) == uerr[i] # Nil

\* Unit i's blob was stored and its locator came back with a 2xx status.
Published(i) == Answered(i) /\ resp[i].status = 200 /\ resp[i].valid /\ ~UnitFailed(i)

\* How often x occurs in the sequence s.
Count(s, x) == Cardinality({ k \in 1..Len(s) : s[k] = x })

\* The blob the store holds under identifier id (id in DOMAIN store).
HeldBlob(id) == DecodeString(store[id]).bytes

\* The four bytes of a 32-bit value, most significant first.
Bytes32(v) == << v[1] \div 256, v[1] % 256, v[2] \div 256, v[2] % 256 >>

\* h mod 2^32, as a 64-bit value.
Mod32(h) == << 0, 0, h[3], h[4] >>

\* Everything GetIDs can hand out.
AllHeightIds == { GetIDs(h).ids[1] : h \in Heights }

(***************************************************************************)
(* C1.  When every publish call of a non-empty batch succeeds, Submit      *)
(* returns one identifier per blob, and the returned identifiers are, as a *)
(* multiset, the locators the service returned.                            *)
(* Fails: on this path Submit returns nothing (see C3).                    *)
(***************************************************************************)
C1_SubmitReturnsAllLocators ==
  ( /\ SubmitFinished
    /\ Len(daBlobs) > 0
    /\ \A i \in Units : Published(i) )
  => /\ subRet.kind = "ids"
     /\ Len(subRet.ids) = Len(daBlobs)
     /\ \A L \in Locators :
          Count(subRet.ids, L) = Cardinality({ i \in Units : resp[i].uri = L })

(***************************************************************************)
(* C2.  When at least one unit of the batch fails, Submit returns a        *)
(* non-nil error and no identifier, whatever the other units published and *)
(* whatever the interleaving.                                              *)
(***************************************************************************)
C2_AllOrNothing ==
  ( SubmitFinished /\ \E i \in Units : UnitFailed(i) )
  => /\ subRet.kind = "error"
     /\ subRet.err # Nil
     /\ subRet.ids = <<>>

\* One unit failed, another published, and its locator was collected.
C2_Witness ==
  /\ SubmitFinished
  /\ \E i \in Units : UnitFailed(i)
  /\ \E j \in Units : Published(j)
  /\ ids # <<>>

(***************************************************************************)
(* C3.  A Submit call that finishes hands its caller the collected         *)
(* identifier list or an error, never neither; with no error on the error  *)
(* channel it returns the collected list.                                  *)
(* Fails: the function ends after the error check with no return.          *)
(***************************************************************************)
C3_ExplicitOutcome ==
  SubmitFinished
  => /\ subRet.kind \in {"ids", "error"}
     /\ (\A i \in Units : ~UnitFailed(i)) => subRet = [ kind |-> "ids", ids |-> ids, err |-> Nil ]

(***************************************************************************)
(* C4.  Round trip: the identifier Submit returns for a published blob is  *)
(* the locator the service returned, and a later Get on that identifier    *)
(* asks the service for exactly that locator and returns the blob's bytes. *)
(* Fails in its first half: Submit returns no identifier (see C3).         *)
(***************************************************************************)
C4_RoundTrip ==
  /\ SubmitFinished
     => \A i \in Units :
          Published(i) => \E j \in 1..Len(subRet.ids) : subRet.ids[j] = resp[i].uri
  /\ (op = "Get" /\ getRet.kind = "ok")
     => \A k \in 1..Len(getIds) :
          (getIds[k] \in DOMAIN store /\ getReqs[k].status = 200)
          => /\ QueryValue(getReqs[k].query) = getIds[k]
             /\ \E B \in Blobs : LocatorOf(B) = getIds[k] /\ getRet.blobs[k] = B

\* The second half of C4 alone, which holds.
C4_GetHalf ==
  (op = "Get" /\ getRet.kind = "ok")
  => \A k \in 1..Len(getIds) :
       (getIds[k] \in DOMAIN store /\ getReqs[k].status = 200)
       => /\ QueryValue(getReqs[k].query) = getIds[k]
          /\ \E B \in Blobs : LocatorOf(B) = getIds[k] /\ getRet.blobs[k] = B

(***************************************************************************)
(* C5.  A Get that returns without error returns one blob per input        *)
(* identifier, and where the store holds the k-th identifier and served    *)
(* it, the k-th blob returned is the blob held under it: the output order  *)
(* is the input order, repeated identifiers included.                      *)
(***************************************************************************)
C5_GetOrder ==
  (op = "Get" /\ getRet.kind = "ok")
  => /\ Len(getRet.blobs) = Len(getIds)
     /\ \A k \in 1..Len(getIds) :
          (getIds[k] \in DOMAIN store /\ getReqs[k].status = 200)
          => getRet.blobs[k] = HeldBlob(getIds[k])

\* Three identifiers, the first two different and the third a repeat, all served.
C5_Witness ==
  /\ op = "Get" /\ getRet.kind = "ok"
  /\ Len(getIds) = 3
  /\ getIds[1] # getIds[2] /\ getIds[3] = getIds[1]
  /\ \A k \in 1..3 : getIds[k] \in DOMAIN store /\ getReqs[k].status = 200
  /\ getRet.blobs[1] # getRet.blobs[2]

(***************************************************************************)
(* C6.  Get fails fast: when the fetch at position k fails, Get returns    *)
(* that error and no blob, the blobs fetched before k are not handed out,  *)
(* and no request is sent for an identifier after position k.              *)
(***************************************************************************)
C6_GetFailFast ==
  (op = "Get" /\ getRet.kind = "error")
  => /\ getRet.err # Nil
     /\ getRet.blobs = <<>>
     /\ gi <= Len(getIds)
     /\ Len(blobs) = gi - 1
     /\ Len(getReqs) \in {gi - 1, gi}
     /\ \A r \in 1..Len(getReqs) : getReqs[r].id = getIds[r]

\* The second of three fetches failed after its request was sent: one blob had
\* been fetched, and the third identifier was never asked for.
C6_Witness ==
  /\ op = "Get" /\ getRet.kind = "error"
  /\ Len(getIds) = 3 /\ gi = 2
  /\ Len(blobs) = 1 /\ Len(getReqs) = 2

(***************************************************************************)
(* C7.  A non-2xx status is a failure like a transport error: a unit whose *)
(* publish answer is non-2xx never sends a result and Submit returns an    *)
(* error; a fetch answered with a non-2xx status makes Get return an       *)
(* error, whatever the body.                                               *)
(* Fails: neither Submit nor Get looks at the status code.                 *)
(***************************************************************************)
C7_NonSuccessStatusFails ==
  /\ \A i \in Units :
       (Answered(i) /\ resp[i].status \notin 200..299)
       => /\ upc[i] \notin {"parsed", "locked", "sent"}
          /\ upc[i] \in {"exit", "done"} => UnitFailed(i)
  /\ \A k \in 1..Len(getReqs) :
       (getReqs[k].status # 0 /\ getReqs[k].status \notin 200..299)
       => getRet.kind = "error"

C9_TruncatesTo32Bits ==
  op = "GetIDs"
  => /\ idsRet.kind = "ok" /\ idsRet.err = Nil
     /\ idsRet.ids = GetIDs(Mod32(height)).ids
     /\ \A h2 \in Heights :
          Mod32(h2) = Mod32(height) => GetIDs(h2).ids = idsRet.ids

\* GetIDs has returned for a height of 2^48 + 1 or more.
C9_Witness ==
  /\ op = "GetIDs" /\ height[1] # 0 /\ height[4] = 1
  /\ idsRet.kind = "ok"

(***************************************************************************)
(* C10.  No fetch request is ever sent for an identifier GetIDs hands out. *)
(* Fails: Get treats every identifier as a locator.  Most height           *)
(* identifiers never reach the service only because their NUL bytes make   *)
(* http.NewRequest fail; one whose bytes have a '#' before the first       *)
(* control byte is sent.                                                   *)
(***************************************************************************)
C10_HeightIdNeverFetched ==
  \A k \in 1..Len(getReqs) : getReqs[k].id \notin AllHeightIds


(***************************************************************************)
(* The caller's context.                                                   *)
(***************************************************************************)
\* The caller cancels the context it passed to the call.  No line of Submit
\* reads ctx: http.Post (line 88) builds its request without a context.
CtxCancel ==
  /\ ~ctxDone
  /\ ctxDone' = TRUE
  /\ UNCHANGED << store, op, subVars, getVars, idsVars, sunrise, callRet,
                  parked >>

\* One Submit call whose caller may cancel the context at any moment.
SpecCancel == Init /\ [][SubmitNext \/ CtxCancel]_vars

\* C11: once the caller's context is cancelled, every publish that has not
\* completed is aborted and reports an error: a unit that leaves http.Post
\* after the cancellation leaves it with an error to send.
C11_CancelAbortsPublishes ==
  [][ \A i \in DOMAIN upc :
        (ctxDone /\ op = "Submit" /\ upc[i] = "start" /\ i \in DOMAIN upc'
           /\ upc'[i] # "start")
        => (upc'[i] = "sendErr" /\ uerr'[i] # Nil) ]_vars


(***************************************************************************)
(* Requests sent to the service.                                           *)
(***************************************************************************)
\* One Submit call on a fresh service, or Get calls one after another.
SpecRequests == Init /\ [][SubmitNext \/ GetNext]_vars

SpecConst == InitGet /\ [][ConstNext \/ CtxCancel]_vars

\* C13: GetProofs, Commit and Validate return an empty sequence and no error
\* for every input and in every state, and send nothing to the service: the
\* store, the log of fetches and the publish history stay as they were.
C13_StubsReturnEmpty ==
  [][ op' \in {"GetProofs", "Commit", "Validate"} /\ op = "idle"
        => /\ callRet'.value = <<>>
           /\ callRet'.err = Nil
           /\ store' = store /\ getReqs' = getReqs /\ hist' = hist ]_vars

C13_Witness ==
  /\ op = "Validate"
  /\ Len(callRet.arg[1]) = 2 /\ callRet.arg[1][1] = Loc1
  /\ Len(callRet.arg[2]) = 2
  /\ Loc1 \in DOMAIN store
  /\ ctxDone
  /\ callRet.value = <<>> /\ callRet.err = Nil

\* C14: MaxBlobSize returns 2,048,000 and no error in every state, cancelled
\* context or not, whatever the service holds.
C14_MaxBlobSizeConstant ==
  op = "MaxBlobSize" => (callRet.value = 2048000 /\ callRet.err = Nil)

C14_Witness ==
  /\ op = "MaxBlobSize"
  /\ ctxDone
  /\ store # <<>>
  /\ callRet.value = 2048000


(***************************************************************************)
(* The goroutines of one Submit call.                                      *)
(***************************************************************************)
\* C15: Submit delivers no outcome while a unit of the call still runs.  Once
\* the calling goroutine has left the range loop, the result channel is
\* closed, the wait group is at zero and every unit has run its wg.Done().
C15_NoOutcomeWhileUnitsRun ==
  (op = "Submit" /\ mpc \in {"checkErr", "done"})
    => /\ "resultChan" \in closed
       /\ wg = 0
       /\ \A i \in Units : upc[i] = "done"

\* One unit failed, another published, and the caller has its outcome.
C15_Witness ==
  /\ SubmitFinished
  /\ \E i, j \in Units : UnitFailed(i) /\ hist.err[i] = 1 /\ hist.res[j] = 1
  /\ \A i \in Units : upc[i] = "done"


\* The channels the supervising goroutine has closed when it stands at sup.
ClosedAt(s) ==
  CASE s = "closeError" -> {"resultChan"}
    [] s = "done" -> {"resultChan", "errorChan"}
    [] OTHER -> {}

\* How many messages unit i has sent so far, on either channel.
SentBy(i) == hist.res[i] + hist.err[i]

\* C16: each channel is closed exactly once, by the supervising goroutine
\* (so the set of closed channels is fixed by where the supervisor stands),
\* only after every unit has sent its message and run wg.Done(); no unit is
\* ever about to send on a closed channel.
C16_ClosedOnceAfterAllSends ==
  op = "Submit" =>
    /\ closed = ClosedAt(sup)
    /\ sup \in {"closeResult", "closeError", "done"}
         => \A i \in Units : upc[i] = "done" /\ SentBy(i) = 1
    /\ \A i \in Units :
         /\ upc[i] = "locked" => "resultChan" \notin closed
         /\ upc[i] = "sendErr" => "errorChan" \notin closed

C16_Witness ==
  /\ op = "Submit"
  /\ closed = {"resultChan", "errorChan"}
  /\ \E i, j \in Units : hist.err[i] = 1 /\ hist.res[j] = 1

\* The locators waiting in the result channel, oldest first.
Queued == [ k \in 1..Len(resultChan) |-> resultChan[k].MetadataUri ]

\* C17: the identifiers collected, followed by those still in the channel,
\* are the locators in the order in which the units enqueued them; the
\* positions of the blobs in the input play no part.
C17_CompletionOrder ==
  op = "Submit" =>
    /\ ids \o Queued = hist.order
    /\ mpc \in {"checkErr", "done"} => ids = hist.order

\* A schedule in which the output order differs from the input order.
C17_Witness ==
  /\ SubmitFinished
  /\ daBlobs = << BlobA, BlobBin >>
  /\ ids = << LocatorOf(BlobBin), LocatorOf(BlobA) >>
  /\ hist.order = ids

RECURSIVE SumTo(_, _)
\* f[1] + ... + f[n].
SumTo(f, n) == IF n = 0 THEN 0 ELSE f[n] + SumTo(f, n - 1)

\* Messages ever sent on the result channel and on the error channel.
SentResults == SumTo(hist.res, Len(hist.res))
SentErrors == SumTo(hist.err, Len(hist.err))

\* C18: a unit sends one message in its lifetime, on one of the two channels;
\* the messages ever sent number at most the batch size, and exactly the
\* batch size once a channel is closed; no channel holds more than its
\* capacity; a unit about to send finds a free slot, so no send blocks.
C18_OneMessagePerUnit ==
  op = "Submit" =>
    /\ \A i \in Units :
         /\ SentBy(i) <= 1
         /\ upc[i] \in {"exit", "done"} => SentBy(i) = 1
         /\ upc[i] \in {"unborn", "start", "posted", "parsed", "locked",
                        "sendErr"} => SentBy(i) = 0
    /\ SentResults + SentErrors <= Len(daBlobs)
    /\ closed # {} => SentResults + SentErrors = Len(daBlobs)
    /\ Len(resultChan) <= ChanCap /\ Len(errorChan) <= ChanCap
    /\ \A i \in Units :
         /\ upc[i] = "locked" => Len(resultChan) < ChanCap
         /\ upc[i] = "sendErr" => Len(errorChan) < ChanCap

\* Every unit of a batch of two or more has failed, and all their errors sit
\* in the error channel at once.
C18_Witness ==
  /\ op = "Submit"
  /\ Len(daBlobs) >= 2
  /\ Len(errorChan) = Len(daBlobs)
  /\ SentErrors = Len(daBlobs)


\* The batches of the fair specification: every length up to the bound.  The
\* goroutines' control flow does not look at what a blob holds, so one blob
\* stands for all.
FairBatches == SeqsUpTo({ BlobA }, MaxBatch)

FairNext ==
  \/ \E batch \in FairBatches : SubmitCall(batch)
  \/ SubmitSteps

\* One Submit call whose goroutines are scheduled fairly: as long as some
\* goroutine of the call can take a step, a step is taken.  The steps are the
\* calling goroutine's, the supervisor's and the units'; a unit's http.Post
\* is one of them, so every publish call returns.  The Go scheduler gives
\* each runnable goroutine its turn, which implies this.
SpecSubmitFair == Init /\ [][FairNext]_vars /\ WF_vars(SubmitSteps)

\* C19: Submit terminates for every batch size, the empty batch included.
\* Every unit finishes, the supervisor closes both channels, the calling
\* goroutine gets its outcome; the mutex is only ever held by a unit at its
\* send, which finds a free slot, and is free at the end.
C19_SubmitTerminates ==
  /\ [](op = "Submit" /\ mu # 0
          => /\ mu \in Units
             /\ upc[mu] \in {"locked", "sent"}
             /\ upc[mu] = "locked"
                  => (Len(resultChan) < ChanCap /\ "resultChan" \notin closed))
  /\ (op = "Submit")
       ~> /\ SubmitOver
          /\ \A i \in Units : upc[i] = "done"
          /\ closed = {"resultChan", "errorChan"}
          /\ mu = 0
          /\ subRet # NoRet

\* A call whose units all took the mutex in turn has ended.
C19_Witness ==
  /\ op = "Submit" /\ SubmitOver
  /\ Len(daBlobs) >= 2
  /\ SentResults = Len(daBlobs)
  /\ mu = 0


(***************************************************************************)
(* Two Submit calls at once on the same adapter.                           *)
(***************************************************************************)
\* The frame of the Submit call that is running: its caller's position and
\* the locals of lines 60-66 and 132 with what hangs on them.  Each call of
\* the function has its own.
Frame ==
  [ op |-> op, daBlobs |-> daBlobs, mpc |-> mpc, spawned |-> spawned,
    upc |-> upc, resp |-> resp, uerr |-> uerr, resultChan |-> resultChan,
    errorChan |-> errorChan, closed |-> closed, wg |-> wg, mu |-> mu,
    sup |-> sup, ids |-> ids, subRet |-> subRet, hist |-> hist ]

\* Two calls whose channels are one pair, as if resultChan and errorChan
\* were fields of the adapter: the scheduler changes call, the channels stay.
SwitchSharedChannels ==
  /\ parked' = Frame
  /\ op' = parked.op /\ daBlobs' = parked.daBlobs /\ mpc' = parked.mpc
  /\ spawned' = parked.spawned /\ upc' = parked.upc /\ resp' = parked.resp
  /\ uerr' = parked.uerr
  /\ wg' = parked.wg /\ mu' = parked.mu /\ sup' = parked.sup
  /\ ids' = parked.ids /\ subRet' = parked.subRet /\ hist' = parked.hist
  /\ UNCHANGED << resultChan, errorChan, closed >>
  /\ UNCHANGED << store, getVars, idsVars, sunrise, ctxDone, callRet >>

\* The scheduler turns from the goroutines of one call to those of the
\* other: the running call's frame is set aside whole and the other call's
\* frame is taken up.  Store and adapter are the same for both.
Switch ==
  /\ parked' = Frame
  /\ op' = parked.op /\ daBlobs' = parked.daBlobs /\ mpc' = parked.mpc
  /\ spawned' = parked.spawned /\ upc' = parked.upc /\ resp' = parked.resp
  /\ uerr' = parked.uerr
  /\ resultChan' = parked.resultChan /\ errorChan' = parked.errorChan
  /\ closed' = parked.closed
  /\ wg' = parked.wg /\ mu' = parked.mu /\ sup' = parked.sup
  /\ ids' = parked.ids /\ subRet' = parked.subRet /\ hist' = parked.hist
  /\ UNCHANGED << store, getVars, idsVars, sunrise, ctxDone, callRet >>

\* The batches of the two callers: the caller who calls first submits copies
\* of one blob, the caller who calls while that call runs submits copies of
\* the other, so that each locator tells whose blob it names.  Neither batch
\* is empty and together they hold at most MaxInFlight blobs.
TwoBatches ==
  IF parked.op = "idle"
    THEN SeqsUpTo({ BlobA }, MaxInFlight) \ { <<>> }
    ELSE SeqsUpTo({ BlobBin }, MaxInFlight - Len(parked.daBlobs)) \ { <<>> }

TwoNext ==
  \/ \E batch \in TwoBatches : SubmitCall(batch)
  \/ SubmitSteps
  \/ Switch

\* Two callers, each making one Submit call on the same adapter, their
\* goroutines interleaved in every way.
SpecTwo == Init /\ [][TwoNext]_vars

\* Call f has collected and holds in its channels only what its own units
\* sent, and its wait group and mutex speak of its own units only.
OwnOnly(f) ==
  LET units == 1..Len(f.daBlobs)
      queued == [ k \in 1..Len(f.resultChan) |-> f.resultChan[k].MetadataUri ]
      got == f.ids \o queued
  IN /\ got = f.hist.order
     /\ \A k \in 1..Len(got) :
          got[k] # <<>> => \E i \in units : got[k] = LocatorOf(f.daBlobs[i])
     /\ Len(f.errorChan) + (IF f.subRet.kind = "error" THEN 1 ELSE 0)
          = SumTo(f.hist.err, Len(f.hist.err))
     /\ \A k \in 1..Len(f.errorChan) : \E i \in units : f.errorChan[k] = f.uerr[i]
     /\ f.subRet.kind = "error" => \E i \in units : f.subRet.err = f.uerr[i]
     /\ f.wg = Cardinality({ i \in units : f.upc[i] \notin {"unborn", "done"} })
     /\ f.mu # 0 => (f.mu \in units /\ f.upc[f.mu] \in {"locked", "sent"})
     /\ f.closed = ClosedAt(f.sup)

\* C20: two Submit calls on the same adapter do not interfere.  Under every
\* interleaving each call's channels carry only what its own units sent, its
\* identifiers are locators of its own blobs, its error is one of its own
\* units' errors, its wait group counts its own units and its mutex is held
\* by one of them; the adapter stays as it was built.
C20_CallsDoNotInterfere ==
  /\ OwnOnly(Frame)
  /\ OwnOnly(parked)
  /\ sunrise = NewSunriseDA("Background", Config)

\* Both calls have ended after running side by side: each published, and
\* each collected its own locator.
C20_Witness ==
  /\ op = "Submit" /\ parked.op = "Submit"
  /\ SubmitOver /\ parked.mpc = "done" /\ parked.sup = "done"
  /\ ids # <<>> /\ parked.ids # <<>>
  /\ \A k \in 1..Len(ids) : ids[k] = LocatorOf(daBlobs[1])
  /\ \A k \in 1..Len(parked.ids) : parked.ids[k] = LocatorOf(parked.daBlobs[1])
  /\ daBlobs[1] # parked.daBlobs[1]
  /\ DOMAIN store = { Loc1, Loc2 }

====
